---- MODULE Spec2Model ----
(***************************************************************************)
(* A model of map_paths_v2.py (path log -> edges -> resolved edges ->      *)
(* aggregated edge list, the script's main() and the JavaScript overlay    *)
(* that make_map() injects into the page) and of thingsboard_scraper.py.   *)
(*                                                                         *)
(* Conventions                                                             *)
(*  - a str is a sequence of one-character strings: <<"a", " ">> is "a ". *)
(*  - None and NaN are not strs; they are the one-element sequences None   *)
(*    and NaN below, whose element is not a character.                     *)
(*  - a pandas DataFrame is the sequence of its rows, in row order.        *)
(*  - a coordinate is an integer number of 1e-7 degrees.                   *)
(***************************************************************************)
EXTENDS Integers, Sequences, FiniteSets, TLC

VARIABLES
    \* ---- main(): the batch run
    stage,          \* position of main()
    error,          \* the exception that ended the run, or "none"
    raw_rows,       \* the path log as read by pd.read_csv (cells: str or NaN)
    table,          \* the coordinate table as read (header and rows)
    labels_in,      \* the labels table as read, or NoFile without --labels
    paths,          \* load_paths' DataFrame
    edges,          \* build_edges' DataFrame
    devices,        \* the Device Index (load_devices' DataFrame, in row order)
    edges_xy,       \* add_coords' DataFrame
    aggregate,      \* --aggregate / --no-aggregate
    min_count,      \* --min-count
    edge_records,   \* make_map's edge_records
    device_records, \* make_map's device_records
    skip_offline,   \* --skip-offline
    offline_nodes,  \* main's offline_nodes: NoNodes (None) or Nodes(list)
    offline_node_ids, \* make_map's offline_node_ids
    written,        \* m.save(out_html) has run
    \* ---- thingsboard_scraper.get_offline_nodes
    spc,            \* position inside get_offline_nodes ("idle" outside)
    driver,         \* "none", "open" or "quit"
    attempt,        \* the retry loop's attempt
    pending,        \* what the try block left for after the finally clause
    fetch,          \* how the call ended: "none", "returned", "timeout", "raised"
    \* ---- the page's script (the overlay)
    ui,             \* selectedId, the lines' styles, the result list, the view
    searchValue,    \* the text of the search box
    last            \* the last event handled, for stating the properties

vars == <<stage, error, raw_rows, table, labels_in, paths, edges, devices,
          edges_xy, aggregate, min_count, edge_records, device_records,
          skip_offline, offline_nodes, offline_node_ids, written,
          spc, driver, attempt, pending, fetch, ui, searchValue, last>>

batch == <<stage, error, raw_rows, table, labels_in, paths, edges, devices,
           edges_xy, aggregate, min_count, edge_records, device_records,
           skip_offline, offline_nodes, offline_node_ids, written,
           spc, driver, attempt, pending, fetch>>
overlay == <<ui, searchValue, last>>

inputs == <<raw_rows, table, labels_in, aggregate, min_count, skip_offline>>
scraper == <<spc, driver, attempt, pending, fetch>>

(***************************************************************************)
(* str                                                                     *)
(***************************************************************************)
None == <<"<None>">>
NaN == <<"<NaN>">>

S_nan == <<"n", "a", "n">>
S_None == <<"N", "o", "n", "e">>
S_none == <<"n", "o", "n", "e">>

\* the letters, in order
LowerLetters ==
    <<"a", "b", "c", "d", "e", "f", "g", "h", "i", "j", "k", "l", "m", "n",
      "o", "p", "q", "r", "s", "t", "u", "v", "w", "x", "y", "z">>

UpperLetters ==
    <<"A", "B", "C", "D", "E", "F", "G", "H", "I", "J", "K", "L", "M", "N",
      "O", "P", "Q", "R", "S", "T", "U", "V", "W", "X", "Y", "Z">>

\* the position of c in a sequence of characters, 0 when it is not there
IndexOf(chars, c) ==
    IF \E k \in 1..Len(chars) : chars[k] = c
    THEN CHOOSE k \in 1..Len(chars) : chars[k] = c
    ELSE 0

\* str.upper() / String.prototype.toUpperCase() of one character
UpperChar(c) ==
    IF IndexOf(LowerLetters, c) # 0 THEN UpperLetters[IndexOf(LowerLetters, c)]
    ELSE c

\* str.lower() / String.prototype.toLowerCase() of one character
LowerChar(c) ==
    IF IndexOf(UpperLetters, c) # 0 THEN LowerLetters[IndexOf(UpperLetters, c)]
    ELSE c

RECURSIVE upper(_)
upper(s) == IF s = <<>> THEN <<>> ELSE <<UpperChar(Head(s))>> \o upper(Tail(s))

RECURSIVE lower(_)
lower(s) == IF s = <<>> THEN <<>> ELSE <<LowerChar(Head(s))>> \o lower(Tail(s))

\* the control characters chr(1) .. chr(31), in order: Controls[9] is the
\* tab, Controls[10] the line feed, Controls[11] the vertical tab,
\* Controls[12] the form feed, Controls[13] the carriage return and
\* Controls[28] .. Controls[31] the file, group, record and unit separators
Controls ==
    <<"", "", "", "", "", "", "", "",
      "\t", "\n", "", "\f", "\r", "", "", "",
      "", "", "", "", "", "", "", "",
      "", "", "", "", "", "", "">>

\* str.isspace() of one ASCII character: what str.strip() removes
IsSpace(c) ==
    c = " " \/ IndexOf(Controls, c) \in (9..13) \cup (28..31)

\* the ASCII white space and line terminators String.prototype.trim() removes
IsJsSpace(c) == c = " " \/ IndexOf(Controls, c) \in 9..13

RECURSIVE lstrip(_)
lstrip(s) == IF s # <<>> /\ IsSpace(Head(s)) THEN lstrip(Tail(s)) ELSE s

RECURSIVE rstrip(_)
rstrip(s) ==
    IF s # <<>> /\ IsSpace(s[Len(s)]) THEN rstrip(SubSeq(s, 1, Len(s) - 1)) ELSE s

\* str.strip()
strip(s) == rstrip(lstrip(s))

\* String.prototype.trim()
RECURSIVE trim(_)
trim(s) ==
    IF s # <<>> /\ IsJsSpace(Head(s)) THEN trim(Tail(s))
    ELSE IF s # <<>> /\ IsJsSpace(s[Len(s)]) THEN trim(SubSeq(s, 1, Len(s) - 1))
    ELSE s

\* Series.astype(str): str(NaN) is "nan", str(None) is "None"
astype_str(cell) ==
    IF cell = NaN THEN S_nan ELSE IF cell = None THEN S_None ELSE cell

\* Python truthiness of a value that is None or a str
Truthy(x) == x # None /\ x # <<>>

(***************************************************************************)
(* load_paths (the part after pd.read_csv).  A raw row is                  *)
(* [count |-> cell, ids |-> <<node, hop1, .., hop6>>]; date and time only  *)
(* feed the timestamp column, which nothing downstream branches on.        *)
(***************************************************************************)
IdCols == 7

\* df[c] = df[c].astype(str).str.strip()
NormCell(cell) == strip(astype_str(cell))

\* df[c].replace({"nan": None})
ReplaceNan(x) == IF x = S_nan THEN None ELSE x

\* a variant that drops the lower-case text "none" in place of "None"
DropPlaceholderLower(x) == IF Truthy(x) /\ x # S_none THEN x ELSE None

\* lambda x: x if (x and x != "None") else None
DropPlaceholder(x) == IF Truthy(x) /\ x # S_None THEN x ELSE None

\* lambda s: s.upper().strip() if isinstance(s, str) else None
UpperCol(s) == IF s # None THEN strip(upper(s)) ELSE None

IdCell(cell) == DropPlaceholder(ReplaceNan(NormCell(cell)))

load_paths_row(r) ==
    LET ids == [k \in 1..IdCols |-> IdCell(r.ids[k])]
    IN  [count |-> NormCell(r.count),
         ids   |-> ids,
         ids_U |-> [k \in 1..IdCols |-> UpperCol(ids[k])]]

load_paths(rows) == [i \in 1..Len(rows) |-> load_paths_row(rows[i])]

(***************************************************************************)
(* build_edges                                                             *)
(***************************************************************************)
\* [s for s in seq if s and s != ""]
RECURSIVE KeepTruthy(_)
KeepTruthy(s) ==
    IF s = <<>> THEN <<>>
    ELSE (IF Truthy(Head(s)) /\ Head(s) # <<>> THEN <<Head(s)>> ELSE <<>>)
         \o KeepTruthy(Tail(s))

\* seq = [row.get(k) for k in ["node_U", "hop1_U", ..., "hop6_U"]], filtered
HopSeq(row) == KeepTruthy([k \in 1..IdCols |-> row.ids_U[k]])

\* a variant that iterates over range(len(seq)) and so emits one edge too many
RowEdgesOffByOne(row) ==
    LET seq == HopSeq(row)
    IN  IF Len(seq) < 2 THEN <<>>
        ELSE [i \in 1..Len(seq) |->
                [frm |-> seq[i],
                 to |-> seq[IF i < Len(seq) THEN i + 1 ELSE i],
                 order |-> i - 1, count_row |-> row.count]]

\* for i in range(len(seq) - 1): records.append(...)
RowEdges(row) ==
    LET seq == HopSeq(row)
    IN  IF Len(seq) < 2 THEN <<>>
        ELSE [i \in 1..(Len(seq) - 1) |->
                [frm |-> seq[i], to |-> seq[i + 1],
                 order |-> i - 1, count_row |-> row.count]]

RECURSIVE build_edges(_)
build_edges(df) ==
    IF df = <<>> THEN <<>> ELSE RowEdges(Head(df)) \o build_edges(Tail(df))

(***************************************************************************)
(* load_devices / load_labels.  A table as read is                         *)
(* [header |-> <<column names>>, rows |-> <<rows>>], a row a sequence of   *)
(* cells in header order.  A text cell is a str or NaN; a cell of a        *)
(* coordinate column is [num |-> TRUE, v |-> n] when pd.to_numeric can     *)
(* read it and [num |-> FALSE, v |-> 0] when it coerces to NaN.            *)
(***************************************************************************)
NoFile == [header |-> <<>>, rows |-> <<>>, given |-> FALSE]

\* def col(df, name): the first column whose stripped, lower-cased name is
\* `name` (its position; 0 for None)
RECURSIVE colFrom(_, _, _)
colFrom(header, name, k) ==
    IF k > Len(header) THEN 0
    ELSE IF lower(strip(header[k])) = name THEN k
    ELSE colFrom(header, name, k + 1)

col(df, name) == colFrom(df.header, name, 1)

H_id == <<"i", "d">>
H_latitude == <<"l", "a", "t", "i", "t", "u", "d", "e">>
H_longitude == <<"l", "o", "n", "g", "i", "t", "u", "d", "e">>
H_type == <<"t", "y", "p", "e">>
H_devicename == <<"d", "e", "v", "i", "c", "e", "n", "a", "m", "e">>
H_location == <<"l", "o", "c", "a", "t", "i", "o", "n">>

\* if not all([id_col, lat_col, lon_col]): raise ValueError
load_devices_raises(df) ==
    col(df, H_id) = 0 \/ col(df, H_latitude) = 0 \/ col(df, H_longitude) = 0

\* out = out.dropna(subset=["Latitude", "Longitude"])
RECURSIVE dropna_devices(_)
dropna_devices(rows) ==
    IF rows = <<>> THEN <<>>
    ELSE (IF Head(rows).Latitude.num /\ Head(rows).Longitude.num
          THEN <<Head(rows)>> ELSE <<>>) \o dropna_devices(Tail(rows))

load_devices(df) ==
    LET id_col == col(df, H_id)
        lat_col == col(df, H_latitude)
        lon_col == col(df, H_longitude)
        type_col == col(df, H_type)
        out == [i \in 1..Len(df.rows) |->
                  [ID |-> strip(astype_str(df.rows[i][id_col])),
                   Latitude |-> df.rows[i][lat_col],
                   Longitude |-> df.rows[i][lon_col],
                   Type |-> IF type_col # 0
                            THEN strip(astype_str(df.rows[i][type_col]))
                            ELSE <<>>]]
        kept == dropna_devices(out)
    IN  [i \in 1..Len(kept) |->
           [ID_upper |-> strip(upper(kept[i].ID)),
            ID |-> kept[i].ID,
            Latitude |-> kept[i].Latitude.v,
            Longitude |-> kept[i].Longitude.v,
            Type |-> kept[i].Type]]

\* if not all([id_col, name_col, loc_col]): raise ValueError
load_labels_raises(df) ==
    col(df, H_id) = 0 \/ col(df, H_devicename) = 0 \/ col(df, H_location) = 0

load_labels(df) ==
    LET id_col == col(df, H_id)
        name_col == col(df, H_devicename)
        loc_col == col(df, H_location)
    IN  [i \in 1..Len(df.rows) |->
           [ID_upper |-> strip(upper(strip(astype_str(df.rows[i][id_col])))),
            ID |-> strip(astype_str(df.rows[i][id_col])),
            DeviceName |-> strip(astype_str(df.rows[i][name_col])),
            Location |-> strip(astype_str(df.rows[i][loc_col]))]]

\* the rows of `rows` whose index is `key`, in row order
RECURSIVE Matches(_, _)
Matches(rows, key) ==
    IF rows = <<>> THEN <<>>
    ELSE (IF Head(rows).ID_upper = key THEN <<Head(rows)>> ELSE <<>>)
         \o Matches(Tail(rows), key)

\* devices.join(labels[["DeviceName", "Location"]], how="left"): one row per
\* matching label row, one row with NaN labels when none matches
JoinRow(d, labels) ==
    LET ms == Matches(labels, d.ID_upper)
    IN  IF ms = <<>>
        THEN <<[ID_upper |-> d.ID_upper, ID |-> d.ID, Latitude |-> d.Latitude,
                Longitude |-> d.Longitude, Type |-> d.Type,
                DeviceName |-> NaN, Location |-> NaN]>>
        ELSE [j \in 1..Len(ms) |->
                [ID_upper |-> d.ID_upper, ID |-> d.ID, Latitude |-> d.Latitude,
                 Longitude |-> d.Longitude, Type |-> d.Type,
                 DeviceName |-> ms[j].DeviceName, Location |-> ms[j].Location]]

RECURSIVE join_labels(_, _)
join_labels(devs, labels) ==
    IF devs = <<>> THEN <<>>
    ELSE JoinRow(Head(devs), labels) \o join_labels(Tail(devs), labels)

(***************************************************************************)
(* add_coords.  In a merged row a coordinate is <<v>>, or <<>> for NaN.    *)
(***************************************************************************)
\* edges.merge(devices[["Latitude", "Longitude"]], left_on="frm",
\*             right_index=True, how="left")
MergeFromRow(e, devs) ==
    LET ms == Matches(devs, e.frm)
    IN  IF ms = <<>>
        THEN <<[frm |-> e.frm, to |-> e.to, order |-> e.order,
                count_row |-> e.count_row, lat_from |-> <<>>, lon_from |-> <<>>]>>
        ELSE [j \in 1..Len(ms) |->
                [frm |-> e.frm, to |-> e.to, order |-> e.order,
                 count_row |-> e.count_row,
                 lat_from |-> <<ms[j].Latitude>>, lon_from |-> <<ms[j].Longitude>>]]

RECURSIVE MergeFrom(_, _)
MergeFrom(es, devs) ==
    IF es = <<>> THEN <<>>
    ELSE MergeFromRow(Head(es), devs) \o MergeFrom(Tail(es), devs)

\* merged.merge(devices[["Latitude", "Longitude"]], left_on="to", ...)
MergeToRow(e, devs) ==
    LET ms == Matches(devs, e.to)
    IN  IF ms = <<>>
        THEN <<[frm |-> e.frm, to |-> e.to, order |-> e.order,
                count_row |-> e.count_row,
                lat_from |-> e.lat_from, lon_from |-> e.lon_from,
                lat_to |-> <<>>, lon_to |-> <<>>]>>
        ELSE [j \in 1..Len(ms) |->
                [frm |-> e.frm, to |-> e.to, order |-> e.order,
                 count_row |-> e.count_row,
                 lat_from |-> e.lat_from, lon_from |-> e.lon_from,
                 lat_to |-> <<ms[j].Latitude>>, lon_to |-> <<ms[j].Longitude>>]]

RECURSIVE MergeTo(_, _)
MergeTo(es, devs) ==
    IF es = <<>> THEN <<>>
    ELSE MergeToRow(Head(es), devs) \o MergeTo(Tail(es), devs)

\* merged.dropna(subset=["lat_from", "lon_from", "lat_to", "lon_to"])
RECURSIVE dropna_edges(_)
dropna_edges(es) ==
    IF es = <<>> THEN <<>>
    ELSE (IF /\ Head(es).lat_from # <<>> /\ Head(es).lon_from # <<>>
             /\ Head(es).lat_to # <<>> /\ Head(es).lon_to # <<>>
          THEN <<[frm |-> Head(es).frm, to |-> Head(es).to,
                  order |-> Head(es).order, count_row |-> Head(es).count_row,
                  lat_from |-> Head(es).lat_from[1],
                  lon_from |-> Head(es).lon_from[1],
                  lat_to |-> Head(es).lat_to[1],
                  lon_to |-> Head(es).lon_to[1]]>>
          ELSE <<>>) \o dropna_edges(Tail(es))

add_coords(es, devs) == dropna_edges(MergeTo(MergeFrom(es, devs), devs))

(***************************************************************************)
(* make_map, lines 221-238: the edge list handed to the page               *)
(***************************************************************************)
\* the ASCII characters from the space (32) to the underscore (95) and from
\* "a" (97) to the tilde (126)
AsciiLow ==
    <<" ", "!", "\"", "#", "$", "%", "&", "'", "(", ")", "*", "+", ",",
      "-", ".", "/", "0", "1", "2", "3", "4", "5", "6", "7", "8", "9", ":",
      ";", "<", "=", ">", "?", "@", "A", "B", "C", "D", "E", "F", "G", "H",
      "I", "J", "K", "L", "M", "N", "O", "P", "Q", "R", "S", "T", "U", "V",
      "W", "X", "Y", "Z", "[", "\\", "]", "^", "_">>

AsciiHigh ==
    <<"a", "b", "c", "d", "e", "f", "g", "h", "i", "j", "k", "l", "m", "n",
      "o", "p", "q", "r", "s", "t", "u", "v", "w", "x", "y", "z", "{", "|",
      "}", "~", "">>

\* ord(c) of an ASCII character: chr(1) .. chr(31) from Controls, chr(32) ..
\* chr(95) from AsciiLow, chr(97) .. chr(127) from AsciiHigh; a character
\* beyond ASCII sorts after all of these
Ord(c) ==
    IF IndexOf(Controls, c) # 0 THEN IndexOf(Controls, c)
    ELSE IF IndexOf(AsciiLow, c) # 0 THEN 31 + IndexOf(AsciiLow, c)
    ELSE IF IndexOf(AsciiHigh, c) # 0 THEN 96 + IndexOf(AsciiHigh, c)
    ELSE 128

\* a < b for two strs
RECURSIVE StrLess(_, _)
StrLess(a, b) ==
    IF b = <<>> THEN FALSE
    ELSE IF a = <<>> THEN TRUE
    ELSE IF Ord(Head(a)) # Ord(Head(b)) THEN Ord(Head(a)) < Ord(Head(b))
    ELSE StrLess(Tail(a), Tail(b))

\* a variant that groups A->B together with B->A
GroupKeyUndirected(e) ==
    IF StrLess(e.to, e.frm)
    THEN [frm |-> e.to, to |-> e.frm, lat_from |-> e.lat_to,
          lon_from |-> e.lon_to, lat_to |-> e.lat_from, lon_to |-> e.lon_from]
    ELSE [frm |-> e.frm, to |-> e.to, lat_from |-> e.lat_from,
          lon_from |-> e.lon_from, lat_to |-> e.lat_to, lon_to |-> e.lon_to]

\* the groupby key of a resolved edge
GroupKey(e) ==
    [frm |-> e.frm, to |-> e.to, lat_from |-> e.lat_from,
     lon_from |-> e.lon_from, lat_to |-> e.lat_to, lon_to |-> e.lon_to]

\* group keys come out sorted (groupby's sort=True), compared field by field
KeyLess(a, b) ==
    IF a.frm # b.frm THEN StrLess(a.frm, b.frm)
    ELSE IF a.to # b.to THEN StrLess(a.to, b.to)
    ELSE IF a.lat_from # b.lat_from THEN a.lat_from < b.lat_from
    ELSE IF a.lon_from # b.lon_from THEN a.lon_from < b.lon_from
    ELSE IF a.lat_to # b.lat_to THEN a.lat_to < b.lat_to
    ELSE a.lon_to < b.lon_to

RECURSIVE SortKeys(_)
SortKeys(S) ==
    IF S = {} THEN <<>>
    ELSE LET m == CHOOSE x \in S : \A y \in S \ {x} : KeyLess(x, y)
         IN  <<m>> \o SortKeys(S \ {m})

\* .groupby([...], as_index=False).size(), renamed to "count"
groupby_size(es) ==
    LET keys == SortKeys({GroupKey(es[i]) : i \in 1..Len(es)})
    IN  [g \in 1..Len(keys) |->
           [frm |-> keys[g].frm, to |-> keys[g].to,
            lat_from |-> keys[g].lat_from, lon_from |-> keys[g].lon_from,
            lat_to |-> keys[g].lat_to, lon_to |-> keys[g].lon_to,
            count |-> Cardinality({i \in 1..Len(es) : GroupKey(es[i]) = keys[g]})]]

Max(a, b) == IF a >= b THEN a ELSE b

\* a variant that keeps only the counts above the minimum
KeepCountStrict(c, K) == c > Max(1, K)

\* agg[agg["count"] >= max(1, int(min_count))]
KeepCount(c, K) == c >= Max(1, K)

RECURSIVE FilterCount(_, _)
FilterCount(agg, K) ==
    IF agg = <<>> THEN <<>>
    ELSE (IF KeepCount(Head(agg).count, K) THEN <<Head(agg)>> ELSE <<>>)
         \o FilterCount(Tail(agg), K)

\* edge_records
make_edge_records(es, agg_mode, K) ==
    IF agg_mode
    THEN FilterCount(groupby_size(es), K)
    ELSE [i \in 1..Len(es) |->
            [frm |-> es[i].frm, to |-> es[i].to,
             lat_from |-> es[i].lat_from, lon_from |-> es[i].lon_from,
             lat_to |-> es[i].lat_to, lon_to |-> es[i].lon_to,
             count |-> 1]]

\* main's offline_nodes: None, or the list get_offline_nodes returned
NoNodes == [none |-> TRUE, list |-> <<>>]
Nodes(l) == [none |-> FALSE, list |-> l]

\* for col in ["DeviceName", "Location"]: if col not in devices.columns:
\*     devices[col] = ""          (on the caller's frame, in place)
ensure_label_columns(devs) ==
    [i \in 1..Len(devs) |->
       [ID_upper |-> devs[i].ID_upper, ID |-> devs[i].ID,
        Latitude |-> devs[i].Latitude, Longitude |-> devs[i].Longitude,
        Type |-> devs[i].Type,
        DeviceName |-> IF "DeviceName" \in DOMAIN devs[i]
                       THEN devs[i].DeviceName ELSE <<>>,
        Location |-> IF "Location" \in DOMAIN devs[i]
                     THEN devs[i].Location ELSE <<>>]]

\* dev_df.fillna("")
fillna(x) == IF x = NaN THEN <<>> ELSE x

\* dev_df = devices.reset_index()[[...]].copy(); fillna; to_dict("records")
make_device_records(devs) ==
    LET d == ensure_label_columns(devs)
    IN  [i \in 1..Len(d) |->
           [ID_upper |-> d[i].ID_upper, ID |-> d[i].ID,
            Latitude |-> d[i].Latitude, Longitude |-> d[i].Longitude,
            Type |-> d[i].Type,
            DeviceName |-> fillna(d[i].DeviceName),
            Location |-> fillna(d[i].Location)]]

\* if offline_nodes: for name, node_id in offline_nodes:
\*     offline_node_ids.add(node_id.upper().strip())
make_offline_node_ids(nodes) ==
    IF nodes.none \/ nodes.list = <<>> THEN {}
    ELSE {strip(upper(nodes.list[i][2])) : i \in 1..Len(nodes.list)}

(***************************************************************************)
(* Inputs                                                                  *)
(***************************************************************************)
MaxRows == 2        \* rows of a path log
FilledCols == 3     \* id columns of a one-row log that vary (the rest NaN)
MaxMinCount == 3    \* largest --min-count

Pad(ids, n) == [k \in 1..IdCols |-> IF k <= n THEN ids[k] ELSE NaN]
RawRow(ids, n) == [count |-> <<"5">>, ids |-> Pad(ids, n)]

\* what a cell of an id column can hold after pd.read_csv(dtype=str): NaN for
\* an empty field, else the field's text
CellUniverse ==
    {NaN, <<" ">>, <<" ", "N", "o", "n", "e">>, S_none,
     <<"n", "a", "n", " ">>, <<" ", "a", " ">>, <<"B">>,
     <<Controls[31], "c", Controls[11]>>}

SingleRowLogs == {<<RawRow(f, FilledCols)>> : f \in [1..FilledCols -> CellUniverse]}

Row_AB == RawRow(<<<<"a">>, <<"B">>>>, 2)
Row_ABAB == RawRow(<<<<"a">>, <<"b">>, <<"A">>, <<"B">>>>, 4)
Row_BAAC == RawRow(<<<<"B">>, NaN, <<" ", "a">>, <<"a">>, <<"c">>>>, 5)
Row_DA == RawRow(<<<<"d">>, <<"a">>>>, 2)

PathRowUniverse == {Row_AB, Row_ABAB, Row_BAAC, Row_DA}

Logs == UNION {[1..n -> PathRowUniverse] : n \in 0..MaxRows}

Num(v) == [num |-> TRUE, v |-> v]
NotNum == [num |-> FALSE, v |-> 0]

Hdr_ID == <<"I", "D">>
Hdr_Latitude == <<"L", "a", "t", "i", "t", "u", "d", "e">>
Hdr_Longitude == <<"L", "o", "n", "g", "i", "t", "u", "d", "e">>

Table1 ==
    [header |-> <<Hdr_ID, Hdr_Latitude, Hdr_Longitude>>,
     rows |-> << <<<<"a">>, Num(12), Num(20)>>,
                 <<<<"B">>, Num(14), Num(20)>>,
                 <<<<"c">>, Num(0), Num(40)>>,
                 <<<<"e">>, Num(30), Num(40)>> >>,
     given |-> TRUE]

Table2 ==
    [header |-> <<<<" ", "i", "d", " ">>,
                  <<"L", "A", "T", "I", "T", "U", "D", "E">>,
                  <<"l", "o", "n", "g", "i", "t", "u", "d", "e">>,
                  <<"T", "y", "p", "e">>>>,
     rows |-> << <<<<"a">>, Num(12), Num(20), <<"g">>>>,
                 <<<<" ", "A">>, Num(12), Num(20), NaN>>,
                 <<<<"d">>, NotNum, Num(20), <<"r">>>>,
                 <<<<"b", " ">>, Num(-14), Num(20), <<"r">>>> >>,
     given |-> TRUE]

Table3 ==
    [header |-> <<Hdr_ID, <<"L", "a", "t">>, Hdr_Longitude>>,
     rows |-> << <<<<"a">>, Num(12), Num(20)>> >>,
     given |-> TRUE]

Table4 ==
    [header |-> <<Hdr_ID, Hdr_Latitude, Hdr_Longitude>>,
     rows |-> << <<<<"a">>, Num(12), Num(20)>>,
                 <<<<"A">>, Num(50), Num(60)>>,
                 <<<<"B">>, Num(34), Num(20)>> >>,
     given |-> TRUE]

\* coordinates whose seventh decimal is a 5: 3.5e-6 is stored as a double just
\* below 0.0000035
Table5 ==
    [header |-> <<Hdr_ID, Hdr_Latitude, Hdr_Longitude>>,
     rows |-> << <<<<"a">>, Num(35), Num(20)>>,
                 <<<<"B">>, Num(44), Num(20)>>,
                 <<<<"c">>, Num(45), Num(-25)>> >>,
     given |-> TRUE]

Hdr_DeviceName == <<"D", "e", "v", "i", "c", "e", "N", "a", "m", "e">>
Hdr_Location == <<"L", "o", "c", "a", "t", "i", "o", "n">>

Labels1 ==
    [header |-> <<Hdr_ID, Hdr_DeviceName, Hdr_Location>>,
     rows |-> << <<<<"a">>, <<"n">>, <<"l">>>>,
                 <<<<"c">>, <<"a", "b">>, NaN>> >>,
     given |-> TRUE]

Labels2 ==
    [header |-> <<Hdr_ID, Hdr_DeviceName, Hdr_Location>>,
     rows |-> << <<<<"a">>, <<"n">>, <<"l">>>>,
                 <<<<"A", " ">>, <<"e">>, <<"d">>>> >>,
     given |-> TRUE]

Labels3 ==
    [header |-> <<Hdr_ID, Hdr_DeviceName>>,
     rows |-> << <<<<"a">>, <<"n">>>> >>,
     given |-> TRUE]

\* a table whose k-th column carries another name
Hdr_Other == <<"N", "o", "d", "e">>
RenameColumn(df, k) == [df EXCEPT !.header[k] = Hdr_Other]

\* (coordinate table, labels table) pairs
DeviceInputs ==
    {<<Table1, NoFile>>, <<Table1, Labels1>>, <<Table2, NoFile>>,
     <<Table4, Labels2>>, <<Table3, NoFile>>, <<Table1, Labels3>>}
    \cup {<<RenameColumn(Table1, k), Labels1>> : k \in 1..3}
    \cup {<<Table1, RenameColumn(Labels1, k)>> : k \in 1..3}

\* what the dashboard scrape can return: <<name, node_id>> pairs
OfflineLists ==
    {<<>>,
     << <<<<"T">>, <<"a">>>> >>,
     << <<<<"T">>, <<"B">>>>, <<<<"X">>, <<"U", "n", "k", "n", "o", "w", "n">>>> >>}

(***************************************************************************)
(* main()                                                                  *)
(***************************************************************************)
MAX_RETRIES == 2

InitRun ==
    /\ stage = "load_devices" /\ error = "none"
    /\ paths = <<>> /\ edges = <<>> /\ devices = <<>> /\ edges_xy = <<>>
    /\ edge_records = <<>> /\ device_records = <<>>
    /\ offline_nodes = NoNodes /\ offline_node_ids = {} /\ written = FALSE
    /\ spc = "idle" /\ driver = "none" /\ attempt = 0
    /\ pending = <<"none">> /\ fetch = "none"
    /\ ui = <<>> /\ searchValue = <<>> /\ last = <<>>

\* one-row logs over every cell value
InitCells ==
    /\ raw_rows \in SingleRowLogs
    /\ table = Table1 /\ labels_in = NoFile
    /\ aggregate = TRUE /\ min_count = 1 /\ skip_offline = TRUE
    /\ InitRun

\* several rows, every device input and every aggregation setting
InitLogs ==
    /\ raw_rows \in Logs
    /\ \E di \in DeviceInputs : table = di[1] /\ labels_in = di[2]
    /\ aggregate \in BOOLEAN /\ min_count \in 0..MaxMinCount
    /\ skip_offline = TRUE
    /\ InitRun

\* runs that fetch the offline nodes
InitFetch ==
    /\ raw_rows \in {log \in Logs : Len(log) = 1}
    /\ \E di \in DeviceInputs : table = di[1] /\ labels_in = di[2]
    /\ aggregate = TRUE /\ min_count = 1
    /\ skip_offline = FALSE
    /\ InitRun

Init == InitCells \/ InitLogs \/ InitFetch

\* a variant of main in which the exception is swallowed and the run goes on
AbortContinues(exc) ==
    /\ stage' = "make_map" /\ error' = exc

\* an exception no handler catches ends the run
Abort(exc) ==
    /\ stage' = "aborted" /\ error' = exc

\* devices = load_devices(args.devices)
LoadDevices ==
    /\ stage = "load_devices"
    /\ IF load_devices_raises(table)
       THEN Abort("ValueError") /\ UNCHANGED devices
       ELSE /\ devices' = load_devices(table)
            /\ stage' = "load_labels" /\ UNCHANGED error
    /\ UNCHANGED <<overlay, inputs, scraper, paths, edges, edges_xy, edge_records,
                   device_records, offline_nodes, offline_node_ids, written>>

\* if args.labels: labels = load_labels(...); devices = devices.join(...)
LoadLabels ==
    /\ stage = "load_labels"
    /\ IF labels_in.given /\ load_labels_raises(labels_in)
       THEN Abort("ValueError") /\ UNCHANGED devices
       ELSE /\ devices' = IF labels_in.given
                          THEN join_labels(devices, load_labels(labels_in))
                          ELSE devices
            /\ stage' = "load_paths" /\ UNCHANGED error
    /\ UNCHANGED <<overlay, inputs, scraper, paths, edges, edges_xy, edge_records,
                   device_records, offline_nodes, offline_node_ids, written>>

\* paths = load_paths(args.paths, ...)
LoadPaths ==
    /\ stage = "load_paths"
    /\ paths' = load_paths(raw_rows)
    /\ stage' = "build_edges"
    /\ UNCHANGED <<overlay, inputs, scraper, error, edges, devices, edges_xy,
                   edge_records, device_records, offline_nodes,
                   offline_node_ids, written>>

\* edges = build_edges(paths)
BuildEdges ==
    /\ stage = "build_edges"
    /\ edges' = build_edges(paths)
    /\ stage' = "add_coords"
    /\ UNCHANGED <<overlay, inputs, scraper, error, paths, devices, edges_xy,
                   edge_records, device_records, offline_nodes,
                   offline_node_ids, written>>

\* edges_xy = add_coords(edges, devices).  With no edge at all
\* pd.DataFrame.from_records([]) has no columns and merge(left_on="frm")
\* raises KeyError.
AddCoords ==
    /\ stage = "add_coords"
    /\ IF edges = <<>>
       THEN Abort("KeyError") /\ UNCHANGED edges_xy
       ELSE /\ edges_xy' = add_coords(edges, devices)
            /\ stage' = IF skip_offline THEN "make_map" ELSE "fetch"
            /\ UNCHANGED error
    /\ UNCHANGED <<overlay, inputs, scraper, paths, edges, devices, edge_records,
                   device_records, offline_nodes, offline_node_ids, written>>

(***************************************************************************)
(* thingsboard_scraper.get_offline_nodes, called from main's try block     *)
(***************************************************************************)
\* a variant of main without the except clause: the exception ends the run
ExceptionAborts == [stage |-> "aborted", error |-> "Exception"]

\* main's `except Exception`: offline_nodes = None, and the run goes on
ExceptException == [stage |-> "make_map", error |-> "none"]

\* an exception leaves get_offline_nodes and reaches main's except clause
Raised ==
    /\ fetch' = "raised" /\ spc' = "idle"
    /\ offline_nodes' = NoNodes
    /\ stage' = ExceptException.stage /\ error' = ExceptException.error

\* get_offline_nodes returns `result` to main
Returned(kind, result) ==
    /\ fetch' = kind /\ spc' = "idle"
    /\ offline_nodes' = Nodes(result)
    /\ stage' = "make_map" /\ UNCHANGED error

\* driver = webdriver.Chrome(options=chrome_options)
CreateDriver ==
    /\ stage = "fetch" /\ spc = "idle"
    /\ \/ /\ driver' = "open" /\ attempt' = 1 /\ spc' = "get"
          /\ UNCHANGED <<fetch, offline_nodes, stage, error>>
       \/ /\ Raised /\ UNCHANGED <<driver, attempt>>
    /\ UNCHANGED <<overlay, inputs, pending, paths, edges, devices, edges_xy,
                   edge_records, device_records, offline_node_ids, written>>

\* for attempt in range(1, MAX_RETRIES + 1): try: driver.get(url) ...
GetPage ==
    /\ stage = "fetch" /\ spc = "get"
    /\ \/ \* loaded: break
          /\ spc' = "scrape"
          /\ UNCHANGED <<attempt, fetch, offline_nodes, stage, error>>
       \/ \* TimeoutException on the last attempt: return []
          /\ attempt = MAX_RETRIES
          /\ Returned("timeout", <<>>) /\ UNCHANGED attempt
       \/ \* TimeoutException before the last attempt: retry
          /\ attempt < MAX_RETRIES
          /\ attempt' = attempt + 1
          /\ UNCHANGED <<spc, fetch, offline_nodes, stage, error>>
       \/ \* any other exception is not caught here
          /\ Raised /\ UNCHANGED attempt
    /\ UNCHANGED <<overlay, inputs, driver, pending, paths, edges, devices, edges_xy,
                   edge_records, device_records, offline_node_ids, written>>

\* the try block: sleep, parse the page, collect the offline cards
Scrape ==
    /\ stage = "fetch" /\ spc = "scrape"
    /\ \/ \E results \in OfflineLists : pending' = <<"return", results>>
       \/ pending' = <<"raise">>
    /\ spc' = "finally"
    /\ UNCHANGED <<overlay, inputs, driver, attempt, fetch, stage, error, paths, edges,
                   devices, edges_xy, edge_records, device_records,
                   offline_nodes, offline_node_ids, written>>

\* finally: driver.quit(); then the return or the exception goes through
Finally ==
    /\ stage = "fetch" /\ spc = "finally"
    /\ driver' = "quit"
    /\ pending' = <<"none">>
    /\ IF pending[1] = "return" THEN Returned("returned", pending[2]) ELSE Raised
    /\ UNCHANGED <<overlay, inputs, attempt, paths, edges, devices, edges_xy,
                   edge_records, device_records, offline_node_ids, written>>

\* make_map(devices, edges_xy, args.out, ...)
MakeMap ==
    /\ stage = "make_map"
    /\ edge_records' = make_edge_records(edges_xy, aggregate, min_count)
    /\ devices' = ensure_label_columns(devices)
    /\ device_records' = make_device_records(devices)
    /\ offline_node_ids' = make_offline_node_ids(offline_nodes)
    /\ written' = TRUE
    /\ stage' = "done"
    /\ UNCHANGED <<overlay, inputs, scraper, error, paths, edges, edges_xy,
                   offline_nodes>>

Next ==
    \/ LoadDevices \/ LoadLabels \/ LoadPaths \/ BuildEdges \/ AddCoords
    \/ CreateDriver \/ GetPage \/ Scrape \/ Finally
    \/ MakeMap

Spec == Init /\ [][Next]_vars

(***************************************************************************)
(* The page's script (make_map's search_html).  The page is built from     *)
(* device_records, edge_records, offline_nodes and offline_node_ids.  A    *)
(* line is a polyline of allEdges; ui is                                   *)
(*   [selectedId, lines, results, zoom, center]                            *)
(* with results the positions (in devices) of the result divs' devices.    *)
(* Opacities are in tenths, weights in millionths.                         *)
(***************************************************************************)
COLOR_DEFAULT == "#3388ff"
COLOR_HIGHLIGHT == "#000000"
OPACITY_DEFAULT == 5
OPACITY_HIDDEN == 0
OPACITY_HIGHLIGHT == 9
FOCUS_ZOOM == 13
MAX_RESULTS == 50
WEIGHT_FLAT == 2000000

\* devices, edges, offlineNodes as the page's script receives them
js_devices == device_records
js_edges == edge_records
js_offlineNodes == IF offline_nodes.none THEN <<>> ELSE offline_nodes.list

\* offlineNodeIds.forEach(function(id) { offlineNodeIdsSet.add(id.toUpperCase()) })
offlineNodeIdsSet == {upper(id) : id \in offline_node_ids}

\* maxEdgeCount: the largest count, at least 1
RECURSIVE MaxCountFrom(_, _)
MaxCountFrom(es, m) ==
    IF es = <<>> THEN m
    ELSE MaxCountFrom(Tail(es), IF Head(es).count > m THEN Head(es).count ELSE m)

maxEdgeCount == IF MaxCountFrom(js_edges, 0) < 1 THEN 1 ELSE MaxCountFrom(js_edges, 0)

\* 10^8 * Math.log(1 + c), to the nearest integer
Log1p(c) ==
    CASE c = 1 -> 69314718 [] c = 2 -> 109861229 [] c = 3 -> 138629436
      [] c = 4 -> 160943791 [] c = 5 -> 179175947 [] c = 6 -> 194591015
      [] c = 7 -> 207944154 [] c = 8 -> 219722458 [] c = 9 -> 230258509
      [] c = 10 -> 239789527 [] c = 11 -> 248490665 [] c = 12 -> 256494936
      [] c = 13 -> 263905733 [] c = 14 -> 270805020 [] c = 15 -> 277258872
      [] c = 16 -> 283321334

\* q followed by k more decimal digits of r / d (0 <= r < d), the last
\* digit rounded to nearest; 10 * r is taken as 2 * (5 * r) to stay in range
RECURSIVE DecimalQuotient(_, _, _, _)
DecimalQuotient(q, r, d, k) ==
    IF k = 0 THEN IF 2 * r >= d THEN q + 1 ELSE q
    ELSE DecimalQuotient(10 * q + 2 * ((5 * r) \div d) + (2 * ((5 * r) % d)) \div d,
                         (2 * ((5 * r) % d)) % d, d, k - 1)

\* function weightForCount(c): 1 + 4 * (Math.log(1 + c) / Math.log(1 +
\* maxEdgeCount)), in millionths
weightForCount(c) ==
    LET c1 == IF c = 0 THEN 1 ELSE c
        n == 4 * Log1p(c1)
        d == Log1p(maxEdgeCount)
    IN  IF maxEdgeCount <= 1 THEN WEIGHT_FLAT
        ELSE 1000000 + DecimalQuotient(n \div d, n % d, d, 6)

\* edges.forEach(function(e) { ... L.polyline(...) ... allEdges.push(line) })
NewLine(e) ==
    LET w == weightForCount(e.count)
        isOfflineEdge == e.frm \in offlineNodeIdsSet \/ e.to \in offlineNodeIdsSet
    IN  [fromId |-> e.frm, toId |-> e.to, isOfflineEdge |-> isOfflineEdge,
         baseWeight |-> w, color |-> COLOR_DEFAULT, weight |-> w,
         opacity |-> IF isOfflineEdge THEN OPACITY_HIDDEN ELSE OPACITY_DEFAULT]

\* edgesByNode[id] || [], as the set of positions in allEdges
edgesByNode(lines, id) ==
    {l \in 1..Len(lines) : lines[l].fromId = id \/ lines[l].toId = id}

\* A coordinate of a (> 0) times 1e-7 degrees is the double nearest to
\* a / 10^7.  The binary digits of a / 10^7 are produced by long division;
\* after the 53 significant ones the rest decides which way the double was
\* rounded (round to nearest, ties to even).
TenPow7 == 10000000
SignificandBits == 53

RECURSIVE BitLength(_)
BitLength(i) == IF i = 0 THEN 0 ELSE 1 + BitLength(i \div 2)

\* r: the remainder, k: significant bits still to produce, started: a 1 bit
\* has been produced, lsb: the last bit produced.  TRUE when the double is
\* not below a / 10^7.
\* the remainder r (0 < r < 10^7) shifted until the next bit of r / 10^7 is
\* its first 1 bit
RECURSIVE Normalize(_)
Normalize(r) ==
    IF r * 128 < TenPow7 THEN Normalize(r * 128)
    ELSE IF 2 * r < TenPow7 THEN Normalize(2 * r)
    ELSE r

\* k more bits are produced from the remainder r, 7 at a time (128 * 10^7 is
\* below 2^31); lsb is
\* the last bit produced.  TRUE when what is left rounds the significand up
\* or is nothing at all.
RECURSIVE RoundedNotBelow(_, _, _)
RoundedNotBelow(r, k, lsb) ==
    IF k = 0
    THEN \/ r = 0
         \/ 2 * r > TenPow7
         \/ 2 * r = TenPow7 /\ lsb = 1
    ELSE IF k >= 7
    THEN RoundedNotBelow((r * 128) % TenPow7, k - 7,
                         ((r * 128) \div TenPow7) % 2)
    ELSE RoundedNotBelow((r * 2^k) % TenPow7, 0, ((r * 2^k) \div TenPow7) % 2)

\* TRUE when the double nearest to a / 10^7 is not below a / 10^7
DoubleAtLeast(a) ==
    IF a % TenPow7 = 0 THEN TRUE
    ELSE IF a >= TenPow7
    THEN RoundedNotBelow(a % TenPow7, SignificandBits - BitLength(a \div TenPow7),
                         (a \div TenPow7) % 2)
    ELSE RoundedNotBelow(Normalize(a), SignificandBits, 0)

\* Number.prototype.toFixed(6) of a coordinate given in 1e-7 degrees: the sign
\* and the number n of 1e-6 degrees nearest to the double (of two equally
\* near, the larger)
toFixed6(v) ==
    LET a == IF v < 0 THEN 0 - v ELSE v
        d == a % 10
        n == a \div 10
    IN  [neg |-> v < 0,
         n |-> IF d > 5 \/ (d = 5 /\ DoubleAtLeast(a)) THEN n + 1 ELSE n]

CoordKey(lat, lon) == <<toFixed6(lat), toFixed6(lon)>>

\* a JavaScript number used as a condition
JsTruthy(n) == n # 0

\* a JavaScript string or undefined used as a condition
JsTruthyStr(x) == x # None /\ x # <<>>

\* coordToDeviceId[key]: the ID_upper of the last device stored under key, or
\* None (undefined) when no device was
coordToDeviceId(key) ==
    LET stored == {i \in 1..Len(js_devices) :
                      /\ JsTruthy(js_devices[i].Latitude)
                      /\ JsTruthy(js_devices[i].Longitude)
                      /\ CoordKey(js_devices[i].Latitude, js_devices[i].Longitude) = key}
    IN  IF stored = {} THEN None
        ELSE js_devices[CHOOSE i \in stored : \A j \in stored : j <= i].ID_upper

\* function resetHighlight()
LineReset(line) ==
    [line EXCEPT !.color = COLOR_DEFAULT,
                 !.opacity = IF line.isOfflineEdge THEN OPACITY_HIDDEN
                             ELSE OPACITY_DEFAULT,
                 !.weight = line.baseWeight]

\* a variant that restyles the edges and leaves selectedId alone
resetHighlightKeepsSelection(st) ==
    [st EXCEPT !.lines = [l \in 1..Len(st.lines) |-> LineReset(st.lines[l])]]

\* function resetHighlight(): every edge restyled, selectedId = null
resetHighlight(st) ==
    [st EXCEPT !.lines = [l \in 1..Len(st.lines) |-> LineReset(st.lines[l])],
               !.selectedId = None]

\* function highlightDevice(idUpper)
highlightDevice(st, idUpper) ==
    IF st.selectedId = idUpper THEN resetHighlight(st)
    ELSE LET r == resetHighlight(st)
         IN  [r EXCEPT !.selectedId = idUpper,
                       !.lines = [l \in 1..Len(r.lines) |->
                                    IF l \in edgesByNode(r.lines, idUpper)
                                    THEN [r.lines[l] EXCEPT
                                            !.color = COLOR_HIGHLIGHT,
                                            !.opacity = OPACITY_HIGHLIGHT]
                                    ELSE r.lines[l]]]

\* function focusOnDevice(idUpper)
focusOnDevice(st, idUpper) ==
    LET found == {i \in 1..Len(js_devices) : js_devices[i].ID_upper = idUpper}
        device == js_devices[CHOOSE i \in found : \A j \in found : i <= j]
    IN  IF found # {} /\ JsTruthy(device.Latitude) /\ JsTruthy(device.Longitude)
        THEN highlightDevice(
                 [st EXCEPT !.center = <<device.Latitude, device.Longitude>>,
                            !.zoom = Max(st.zoom, FOCUS_ZOOM)],
                 idUpper)
        ELSE st

\* haystack.indexOf(q) !== -1
Contains(h, q) ==
    \E i \in 0..(Len(h) - Len(q)) : SubSeq(h, i + 1, i + Len(q)) = q

\* d.DeviceName || "" : a str as it is (the empty one is "" either way)
haystack(d) == lower(d.ID \o <<" ">> \o d.DeviceName \o <<" ">> \o d.Location)

RECURSIVE MatchesFrom(_, _)
MatchesFrom(i, q) ==
    IF i > Len(js_devices) THEN <<>>
    ELSE (IF Contains(haystack(js_devices[i]), q) THEN <<i>> ELSE <<>>)
         \o MatchesFrom(i + 1, q)

\* a variant that shows every match
renderResultsUncapped(st, matches) == [st EXCEPT !.results = matches]

\* function renderResults(matches): matches.slice(0, 50)
renderResults(st, matches) ==
    [st EXCEPT !.results = SubSeq(matches, 1, IF Len(matches) < MAX_RESULTS
                                              THEN Len(matches) ELSE MAX_RESULTS)]

\* a variant that resets the highlight on every edit
filterDevicesAlwaysResets(st, query) ==
    LET q == lower(trim(query))
    IN  IF q = <<>>
        THEN resetHighlight([st EXCEPT !.results = <<>>])
        ELSE resetHighlight(renderResults(st, MatchesFrom(1, q)))

\* function filterDevices(query)
filterDevices(st, query) ==
    LET q == lower(trim(query))
    IN  IF q = <<>>
        THEN resetHighlight([st EXCEPT !.results = <<>>])
        ELSE renderResults(st, MatchesFrom(1, q))

\* the state of the page when its DOMContentLoaded handler has run
PageLoaded(zoom_start) ==
    [selectedId |-> None,
     lines |-> [l \in 1..Len(js_edges) |-> NewLine(js_edges[l])],
     results |-> <<>>,
     zoom |-> zoom_start,
     center |-> <<"ctr">>]

\* ---- the pages the overlay is checked on
PageLogs == {<<Row_AB>>, <<Row_ABAB, Row_BAAC>>}

PageDeviceInputs ==
    {<<Table1, Labels1>>, <<Table2, NoFile>>, <<Table4, Labels2>>,
     <<Table5, NoFile>>}

ZoomStarts == {9, 15}

\* the search box's texts
Queries == {<<>>, <<" ">>, <<"a">>, <<"B", " ">>}

\* the end of a run of main() that wrote the page
RunDone(log, di, agg, K, off) ==
    /\ raw_rows = log /\ table = di[1] /\ labels_in = di[2]
    /\ aggregate = agg /\ min_count = K /\ skip_offline = FALSE
    /\ devices = ensure_label_columns(
                     IF di[2].given
                     THEN join_labels(load_devices(di[1]), load_labels(di[2]))
                     ELSE load_devices(di[1]))
    /\ paths = load_paths(log)
    /\ edges = build_edges(paths)
    /\ edges_xy = add_coords(edges, devices)
    /\ edge_records = make_edge_records(edges_xy, agg, K)
    /\ device_records = make_device_records(devices)
    /\ offline_nodes = off
    /\ offline_node_ids = make_offline_node_ids(off)
    /\ stage = "done" /\ error = "none" /\ written = TRUE
    /\ spc = "idle" /\ driver = "quit" /\ attempt = 1 /\ pending = <<"none">>
    /\ fetch = (IF off.none THEN "raised" ELSE "returned")

NoEvent == [kind |-> "load", dev |-> 0, n |-> 0, prev |-> None]

OverlayInit ==
    /\ \E log \in PageLogs, di \in PageDeviceInputs, agg \in BOOLEAN,
          off \in {Nodes(l) : l \in OfflineLists} \cup {NoNodes} :
          RunDone(log, di, agg, 1, off)
    /\ \E z \in ZoomStarts : ui = PageLoaded(z)
    /\ searchValue = <<>>
    /\ last = NoEvent

\* the device a click is counted for: a first click on a device that is not
\* selected counts 1, the next click on the same device counts 2
Clicked(kind, i) ==
    [kind |-> kind, dev |-> i, prev |-> ui.selectedId,
     n |-> IF last.kind \in {"marker", "result"} /\ last.dev = i /\ last.n = 1
           THEN 2
           ELSE IF ui.selectedId # js_devices[i].ID_upper THEN 1 ELSE 0]

\* layer.on('click', ...) of the marker make_map added for devices row i
MarkerClick(i) ==
    /\ stage = "done"
    /\ LET deviceId == coordToDeviceId(CoordKey(js_devices[i].Latitude,
                                                js_devices[i].Longitude))
       IN  ui' = IF JsTruthyStr(deviceId) THEN highlightDevice(ui, deviceId) ELSE ui
    /\ last' = Clicked("marker", i)
    /\ UNCHANGED <<batch, searchValue>>

\* div.onclick of the k-th result div
ResultClick(k) ==
    /\ stage = "done"
    /\ ui' = focusOnDevice(ui, js_devices[ui.results[k]].ID_upper)
    /\ last' = Clicked("result", ui.results[k])
    /\ UNCHANGED <<batch, searchValue>>

\* div.onclick of the j-th offline item
OfflineClick(j) ==
    /\ stage = "done"
    /\ ui' = focusOnDevice(ui, trim(upper(js_offlineNodes[j][2])))
    /\ last' = [kind |-> "offline", dev |-> 0, n |-> 0, prev |-> ui.selectedId]
    /\ UNCHANGED <<batch, searchValue>>

\* searchInput's "input" event with the box holding `text`
FilterInput(text) ==
    /\ stage = "done"
    /\ searchValue' = text
    /\ ui' = filterDevices(ui, text)
    /\ last' = [kind |-> "filter", dev |-> 0, n |-> 0, prev |-> ui.selectedId]
    /\ UNCHANGED batch

OverlayNext ==
    \/ \E i \in 1..Len(js_devices) : MarkerClick(i)
    \/ \E k \in 1..Len(ui.results) : ResultClick(k)
    \/ \E j \in 1..Len(js_offlineNodes) : OfflineClick(j)
    \/ \E text \in Queries : FilterInput(text)

SpecOverlay == OverlayInit /\ [][OverlayNext]_vars

(***************************************************************************)
(* The search box alone, on the pages above and on a page with more        *)
(* devices than the result list shows                                      *)
(***************************************************************************)
BigRows == 52       \* devices of the large page

Digits == <<"0", "1", "2", "3", "4", "5", "6", "7", "8", "9">>

\* devices n01, n02, ... with distinct coordinates
BigTable ==
    [header |-> <<Hdr_ID, Hdr_Latitude, Hdr_Longitude>>,
     rows |-> [i \in 1..BigRows |->
                 << <<"n", Digits[((i \div 10) % 10) + 1], Digits[(i % 10) + 1]>>,
                    Num(100 * i), Num(20) >>],
     given |-> TRUE]

FilterPages == PageDeviceInputs \cup {<<BigTable, NoFile>>}

FilterQueries ==
    {<<>>, <<" ">>, <<"a">>, <<"B", " ">>, <<" ", "N">>, <<"a", " ", "n">>,
     <<"n", "0">>, <<"z">>, <<"L">>, <<Controls[11], "a">>,
     <<Controls[31], "a">>}

FilterInit ==
    /\ \E log \in PageLogs, di \in FilterPages, agg \in BOOLEAN,
          off \in {Nodes(l) : l \in OfflineLists} \cup {NoNodes} :
          RunDone(log, di, agg, 1, off)
    /\ \E z \in ZoomStarts : ui = PageLoaded(z)
    /\ searchValue = <<>>
    /\ last = NoEvent

FilterNext == \E text \in FilterQueries : FilterInput(text)

SpecFilter == FilterInit /\ [][FilterNext]_vars

(***************************************************************************)
(* Properties of the batch run                                             *)
(***************************************************************************)
PathsLoaded ==
    \/ stage \in {"build_edges", "add_coords", "fetch", "make_map", "done"}
    \/ stage = "aborted" /\ error = "KeyError"

EdgesBuilt ==
    \/ stage \in {"add_coords", "fetch", "make_map", "done"}
    \/ stage = "aborted" /\ error = "KeyError"

EdgesResolved == stage \in {"fetch", "make_map", "done"}

\* the i-th smallest element of a set of column positions
NthOf(P, i) == CHOOSE k \in P : Cardinality({j \in P : j <= k}) = i

\* the columns of a path record that hold a hop, and its hops in column order
HopCols(rec) == {k \in 1..IdCols : rec.ids_U[k] # None}
NumHops(rec) == Cardinality(HopCols(rec))
Hop(rec, i) == rec.ids_U[NthOf(HopCols(rec), i)]

\* the number of edges a path record is to emit
NumEdges(rec) == IF NumHops(rec) >= 2 THEN NumHops(rec) - 1 ELSE 0

\* the number of edges the records before record r are to emit
RECURSIVE EdgesBefore(_, _)
EdgesBefore(df, r) ==
    IF r <= 1 THEN 0 ELSE EdgesBefore(df, r - 1) + NumEdges(df[r - 1])

\* C5: build_edges emits, for every path record, len(hops)-1 edges when the
\* record has at least 2 hops and none when it has 0 or 1; the i-th edge of a
\* record has order i (from 0) and endpoints (hops[i], hops[i+1]).
C5_EdgesPerRecord ==
    EdgesBuilt =>
        /\ Len(edges) = EdgesBefore(paths, Len(paths) + 1)
        /\ \A r \in 1..Len(paths) : \A i \in 1..NumEdges(paths[r]) :
              LET e == edges[EdgesBefore(paths, r) + i]
              IN  /\ e.order = i - 1
                  /\ e.frm = Hop(paths[r], i)
                  /\ e.to = Hop(paths[r], i + 1)

C5_Witness ==
    /\ EdgesBuilt /\ Len(paths) = 2
    /\ NumHops(paths[1]) = 2 /\ NumHops(paths[2]) = 4
    /\ Len(edges) = 4

C5_WitnessNoEdge ==
    /\ EdgesBuilt /\ Len(paths) = 1 /\ NumHops(paths[1]) = 1 /\ edges = <<>>

\* the text of a raw cell, trimmed; a missing cell (NaN) has none
IsMissing(cell) == cell = NaN
Trimmed(cell) == strip(cell)

\* the columns of a raw row whose value is a hop, under a set of placeholders
KeptCols(raw, placeholders) ==
    {k \in 1..IdCols :
        /\ ~IsMissing(raw.ids[k])
        /\ Trimmed(raw.ids[k]) # <<>>
        /\ Trimmed(raw.ids[k]) \notin placeholders}

\* the upper-cased, trimmed values of the kept columns, in column order
ExpectedHops(raw, kept) ==
    [i \in 1..Cardinality(kept) |-> upper(Trimmed(raw.ids[NthOf(kept, i)]))]

\* C9 as stated: the hops are the upper-cased, trimmed values of node,
\* hop1..hop6 without the empty ones and without "nan" and "none" (read in
\* any letter case, the reading kindest to the statement), in column order.
C9_HopsAsStated ==
    PathsLoaded =>
        \A r \in 1..Len(raw_rows) :
            HopSeq(paths[r]) =
                ExpectedHops(raw_rows[r],
                    {k \in 1..IdCols :
                        /\ ~IsMissing(raw_rows[r].ids[k])
                        /\ Trimmed(raw_rows[r].ids[k]) # <<>>
                        /\ lower(Trimmed(raw_rows[r].ids[k])) \notin {S_nan, S_none}})

\* C9, amended: the hops are the upper-cased, trimmed values of node,
\* hop1..hop6 without the missing ones and without those that, once trimmed,
\* are empty, exactly "nan" or exactly "None"; the rest keep their order.
C9_Hops ==
    PathsLoaded =>
        \A r \in 1..Len(raw_rows) :
            HopSeq(paths[r]) =
                ExpectedHops(raw_rows[r], KeptCols(raw_rows[r], {S_nan, S_None}))

C9_Witness ==
    /\ PathsLoaded /\ Len(raw_rows) = 1
    /\ raw_rows[1].ids[1] = S_none
    /\ raw_rows[1].ids[2] = <<" ", "N", "o", "n", "e">>
    /\ raw_rows[1].ids[3] = <<" ", "a", " ">>
    /\ HopSeq(paths[1]) = <<<<"N", "O", "N", "E">>, <<"A">>>>

\* the rows of a DataFrame that agree with edge e on frm, to, order, count_row
SameEdge(df, e) ==
    {i \in 1..Len(df) :
        /\ df[i].frm = e.frm /\ df[i].to = e.to
        /\ df[i].order = e.order /\ df[i].count_row = e.count_row}

IndexKeys == {devices[i].ID_upper : i \in 1..Len(devices)}

\* C6 as stated: add_coords keeps an edge, as exactly one resolved edge, when
\* both endpoints are keys of the Device Index, and drops it otherwise.
C6_KeptOnceOrDropped ==
    EdgesResolved =>
        \A i \in 1..Len(edges) :
            Cardinality(SameEdge(edges_xy, edges[i])) =
                IF edges[i].frm \in IndexKeys /\ edges[i].to \in IndexKeys
                THEN Cardinality(SameEdge(edges, edges[i]))
                ELSE 0

\* a resolved edge and an output edge with the same (from, to, coordinates)
SameKey(a, b) ==
    /\ a.frm = b.frm /\ a.to = b.to
    /\ a.lat_from = b.lat_from /\ a.lon_from = b.lon_from
    /\ a.lat_to = b.lat_to /\ a.lon_to = b.lon_to

\* the number of resolved edges that share the key of x
KeyCount(x) == Cardinality({i \in 1..Len(edges_xy) : SameKey(edges_xy[i], x)})

\* C7: in aggregate mode each output edge's count is the number of resolved
\* edges with its (from, to, coordinates) key, no two output edges share a
\* key, and a resolved A->B is never counted into an output edge B->A.
C7_CountPerDirectedKey ==
    (stage = "done" /\ aggregate) =>
        /\ \A g \in 1..Len(edge_records) :
              /\ edge_records[g].count = KeyCount(edge_records[g])
              /\ edge_records[g].count >= 1
        /\ \A g, h \in 1..Len(edge_records) :
              SameKey(edge_records[g], edge_records[h]) => g = h

C7_Witness ==
    /\ stage = "done" /\ aggregate
    /\ \E g, h \in 1..Len(edge_records) :
          /\ edge_records[g].frm = edge_records[h].to
          /\ edge_records[g].to = edge_records[h].frm
          /\ edge_records[g].frm # edge_records[g].to
          /\ edge_records[g].count = 2 /\ edge_records[h].count = 1

\* C8: in aggregate mode with minimum count K the output holds exactly the
\* groups of resolved edges whose count is at least K, and every group when
\* K is 1; two A->B give one edge of count 2 for K = 1 and none for K = 3.
C8_MinCount ==
    (stage = "done" /\ aggregate) =>
        /\ \A i \in 1..Len(edges_xy) :
              (\E g \in 1..Len(edge_records) : SameKey(edge_records[g], edges_xy[i]))
                  <=> KeyCount(edges_xy[i]) >= min_count
        /\ \A g \in 1..Len(edge_records) : KeyCount(edge_records[g]) >= 1
        /\ (Len(edges_xy) = 2 /\ SameKey(edges_xy[1], edges_xy[2])) =>
              /\ min_count = 1 =>
                    Len(edge_records) = 1 /\ edge_records[1].count = 2
              /\ min_count = 3 => edge_records = <<>>

C8_Witness ==
    /\ stage = "done" /\ aggregate /\ min_count = 2
    /\ \E g \in 1..Len(edge_records) : edge_records[g].count = 2
    /\ \E i \in 1..Len(edges_xy) :
          \A g \in 1..Len(edge_records) : ~SameKey(edge_records[g], edges_xy[i])

\* C10: when the offline-node fetch times out or raises, the run does not
\* abort: the offline set is empty, make_map is the next step, and once it
\* has run the map is written.
C10_FetchFailureTolerated ==
    fetch \in {"timeout", "raised"} =>
        /\ stage \in {"make_map", "done"} /\ error = "none"
        /\ offline_nodes \in {NoNodes, Nodes(<<>>)}
        /\ stage = "done" => written /\ offline_node_ids = {}

C10_Witness ==
    /\ fetch = "raised" /\ driver = "quit" /\ stage = "done" /\ written

C10_WitnessTimeout ==
    /\ fetch = "timeout" /\ attempt = MAX_RETRIES /\ stage = "done" /\ written

(***************************************************************************)
(* Properties of the overlay                                               *)
(***************************************************************************)
\* a line in its default style: default colour, base weight, default opacity
DefaultStyle(line) ==
    /\ line.color = COLOR_DEFAULT
    /\ line.weight = line.baseWeight
    /\ line.opacity = IF line.fromId \in offline_node_ids
                         \/ line.toId \in offline_node_ids
                      THEN OPACITY_HIDDEN ELSE OPACITY_DEFAULT

HighlightStyle(line) ==
    /\ line.color = COLOR_HIGHLIGHT
    /\ line.opacity = OPACITY_HIGHLIGHT
    /\ line.weight = line.baseWeight

AllDefault == \A l \in 1..Len(ui.lines) : DefaultStyle(ui.lines[l])

OfflineIncident(line) ==
    line.fromId \in offline_node_ids \/ line.toId \in offline_node_ids

\* C1 as stated: in every state of the overlay an edge with an endpoint in
\* the offline set has zero opacity and not the highlight style, also while
\* one of its endpoints is selected.
C1_OfflineEdgesHidden ==
    stage = "done" =>
        \A l \in 1..Len(ui.lines) :
            OfflineIncident(ui.lines[l]) =>
                /\ ui.lines[l].opacity = OPACITY_HIDDEN
                /\ ui.lines[l].color # COLOR_HIGHLIGHT

\* C2 as stated: clicking a device that is not selected and clicking it again
\* at once leaves no selection and every edge in its default style.
C2_ClickTwiceDeselects ==
    (stage = "done" /\ last.n = 2) =>
        /\ ui.selectedId = None
        /\ AllDefault

\* C3 as stated: clicking the marker or the search result of a device X that
\* is not selected selects X's identity key; then, offline-incident edges
\* aside, exactly the edges with X as an endpoint are highlighted and every
\* other edge has the default style.
C3_ClickSelects ==
    (stage = "done" /\ last.n = 1) =>
        LET X == js_devices[last.dev].ID_upper
        IN  /\ ui.selectedId = X
            /\ \A l \in 1..Len(ui.lines) :
                  ~OfflineIncident(ui.lines[l]) =>
                      IF ui.lines[l].fromId = X \/ ui.lines[l].toId = X
                      THEN HighlightStyle(ui.lines[l])
                      ELSE DefaultStyle(ui.lines[l])

\* C4: whenever the filter text becomes empty the result list is emptied,
\* the selection becomes null and every edge has its default style.
C4_ClearingFilterResets ==
    (stage = "done" /\ last.kind = "filter" /\ searchValue = <<>>) =>
        /\ ui.results = <<>>
        /\ ui.selectedId = None
        /\ AllDefault

C4_Witness ==
    /\ stage = "done" /\ last.kind = "filter" /\ searchValue = <<>>
    /\ last.prev # None /\ ui.selectedId = None
    /\ \E l \in 1..Len(ui.lines) :
          ui.lines[l].fromId = last.prev /\ ~OfflineIncident(ui.lines[l])

(***************************************************************************)
(* Schema errors                                                           *)
(***************************************************************************)
\* a table has a column of this name (stripped, any letter case)
HasColumn(df, name) ==
    \E k \in 1..Len(df.header) : lower(strip(df.header[k])) = name

DevicesColumnMissing ==
    \E name \in {H_id, H_latitude, H_longitude} : ~HasColumn(table, name)

LabelsColumnMissing ==
    /\ labels_in.given
    /\ \E name \in {H_id, H_devicename, H_location} : ~HasColumn(labels_in, name)

\* C11: when a required column of the coordinate table or of a supplied
\* labels table is missing, the run never gets past the loading of that
\* table: it ends aborted with the schema error (ValueError), make_map is
\* never reached and nothing is written.
C11_SchemaErrorAborts ==
    /\ DevicesColumnMissing =>
          /\ stage \in {"load_devices", "aborted"}
          /\ stage = "aborted" => error = "ValueError"
          /\ ~written /\ edge_records = <<>> /\ device_records = <<>>
    /\ LabelsColumnMissing =>
          /\ stage \in {"load_devices", "load_labels", "aborted"}
          /\ stage = "aborted" => error = "ValueError"
          /\ ~written /\ edge_records = <<>> /\ device_records = <<>>

C11_Witness ==
    /\ ~DevicesColumnMissing /\ LabelsColumnMissing
    /\ ~HasColumn(labels_in, H_devicename)
    /\ stage = "aborted" /\ error = "ValueError" /\ devices # <<>> /\ ~written

C11_WitnessDevices ==
    /\ DevicesColumnMissing /\ ~HasColumn(table, H_longitude)
    /\ stage = "aborted" /\ error = "ValueError" /\ ~written

(***************************************************************************)
(* The Device Index                                                        *)
(***************************************************************************)
\* load_devices and the label join are over
IndexBuilt ==
    \/ stage \in {"load_paths", "build_edges", "add_coords", "fetch",
                  "make_map", "done"}
    \/ stage = "aborted" /\ error = "KeyError"

\* C12 as stated: the Device Index built by load_devices and the label join
\* holds at most one device per identity key (upper-cased, trimmed ID).
C12_UniqueIdentityKey ==
    IndexBuilt =>
        \A i, j \in 1..Len(devices) :
            devices[i].ID_upper = devices[j].ID_upper => i = j

(***************************************************************************)
(* The viewport                                                            *)
(***************************************************************************)
\* the step is a click on the marker or the search result of a device that
\* was not selected
SelectingClick == last'.kind \in {"marker", "result"} /\ last'.n = 1

\* C13 as stated: a click on the marker or the search result of a device
\* that is not selected recenters the viewport on that device and leaves the
\* zoom at the maximum of the previous zoom and the threshold.
C13_SelectRecenters ==
    [][SelectingClick =>
          /\ ui'.center = <<js_devices[last'.dev].Latitude,
                            js_devices[last'.dev].Longitude>>
          /\ ui'.zoom = Max(ui.zoom, FOCUS_ZOOM)]_vars

(***************************************************************************)
(* The search box                                                          *)
(***************************************************************************)
\* the filter text as compared: trimmed, lower-cased
QueryOf(text) == lower(trim(text))

\* the first MAX_RESULTS positions of a set of device positions, ascending
FirstOf(P) ==
    [k \in 1..(IF Cardinality(P) < MAX_RESULTS THEN Cardinality(P)
                ELSE MAX_RESULTS) |-> NthOf(P, k)]

\* a field of its own contains the query
FieldMatch(d, q) ==
    \/ Contains(lower(d.ID), q)
    \/ Contains(lower(d.DeviceName), q)
    \/ Contains(lower(d.Location), q)

\* the text "ID DeviceName Location" contains the query
JoinedMatch(d, q) ==
    Contains(lower(d.ID \o <<" ">> \o d.DeviceName \o <<" ">> \o d.Location), q)

FilterApplied ==
    stage = "done" /\ last.kind = "filter" /\ QueryOf(searchValue) # <<>>

\* C14 as stated: after a filter edit with a non-empty query the result list
\* is the first 50, in device-list order, of exactly the devices whose ID,
\* device name or location contains the query, letter case aside.
C14_ResultsAsStated ==
    FilterApplied =>
        ui.results = FirstOf({i \in 1..Len(js_devices) :
                                  FieldMatch(js_devices[i], QueryOf(searchValue))})

\* C14, amended: the result list is the first 50, in device-list order, of
\* exactly the devices for which the text "ID DeviceName Location" (the three
\* fields joined by single spaces) contains the trimmed query, letter case
\* aside.
C14_Results ==
    FilterApplied =>
        ui.results = FirstOf({i \in 1..Len(js_devices) :
                                  JoinedMatch(js_devices[i], QueryOf(searchValue))})

C14_Witness ==
    /\ FilterApplied
    /\ Len(js_devices) > MAX_RESULTS
    /\ Len(ui.results) = MAX_RESULTS
    /\ \A k \in 1..MAX_RESULTS : ui.results[k] = k

C14_WitnessSome ==
    /\ FilterApplied
    /\ ui.results # <<>> /\ Len(ui.results) < Len(js_devices)
    /\ ui.results[1] > 1

(***************************************************************************)
(* The browser driver                                                      *)
(***************************************************************************)
\* the call of get_offline_nodes is over: it has returned or raised
CallOver == fetch \in {"returned", "timeout", "raised"}

\* C15 as stated: when a call of get_offline_nodes that created a driver is
\* over, by a return or by an exception, the driver has been quit.
C15_DriverQuit ==
    (CallOver /\ driver # "none") => driver = "quit"

(***************************************************************************)
(* The frame of a filter edit                                              *)
(***************************************************************************)
\* the step is a filter edit whose text is non-empty after trimming
NonEmptyFilterEdit == last'.kind = "filter" /\ QueryOf(searchValue') # <<>>

\* C16: a filter edit whose text is non-empty after trimming changes only
\* the result list: the selection, the style of every edge and the viewport
\* are what they were before the edit.
C16_FilterEditFrame ==
    [][NonEmptyFilterEdit =>
          /\ ui'.selectedId = ui.selectedId
          /\ ui'.lines = ui.lines
          /\ ui'.zoom = ui.zoom /\ ui'.center = ui.center]_vars

C16_Witness ==
    /\ stage = "done" /\ last.kind = "filter" /\ QueryOf(searchValue) # <<>>
    /\ last.prev # None /\ ui.selectedId = last.prev
    /\ ui.results # <<>>
    /\ \E l \in 1..Len(ui.lines) : HighlightStyle(ui.lines[l])

====
